---- MODULE Spec2Model ----
(***************************************************************************)
(* The Slack layout publishers of publishers/community/slack/slack_layout:  *)
(* Summary, AttachRuleInfo, AttachPublication and AttachFullRecord, folded  *)
(* over a publication, with the line chunking of AttachFullRecord.          *)
(*                                                                          *)
(* Text is a sequence of one-character strings, so that lengths, escaping   *)
(* and splitting are computed.  Python objects that can be aliased (the     *)
(* publication dicts and their attachment lists) live in a heap and are     *)
(* named by their address.                                                  *)
(***************************************************************************)
EXTENDS Integers, Sequences, FiniteSets, TLC

(***************************************************************************)
(* Bounds of the model.                                                     *)
(***************************************************************************)
\* Pipelines of at most this many publishers are folded.
MaxStages == 3
\* A subclass may override _SLACK_MAXIMUM_ATTACHMENT_CHARACTER_LENGTH; the
\* overrides modelled leave character limits 0 .. MaxBudget.
MaxBudget == 7

(***************************************************************************)
(* Text                                                                     *)
(***************************************************************************)
NL == "\n"
\* The grave accent, which a TLA+ string cannot hold.
BACKTICK == "U+0060"

\* The printable ASCII characters in code point order, 32 .. 126.
ASCII == <<" ", "!", "\"", "#", "$", "%", "&", "'", "(", ")", "*", "+", ",", "-", ".", "/", "0", "1", "2", "3", "4", "5", "6", "7", "8", "9", ":", ";", "<", "=", ">", "?", "@", "A", "B", "C", "D", "E", "F", "G", "H", "I", "J", "K", "L", "M", "N", "O", "P", "Q", "R", "S", "T", "U", "V", "W", "X", "Y", "Z", "[", "\\", "]", "^", "_", BACKTICK, "a", "b", "c", "d", "e", "f", "g", "h", "i", "j", "k", "l", "m", "n", "o", "p", "q", "r", "s", "t", "u", "v", "w", "x", "y", "z", "{", "|", "}", "~">>

ord(c) == IF c = NL THEN 10 ELSE 31 + (CHOOSE i \in 1..Len(ASCII) : ASCII[i] = c)

\* Python's ordering of str: lexicographic by code point.
RECURSIVE str_lt(_, _)
str_lt(a, b) ==
    IF Len(b) = 0 THEN FALSE
    ELSE IF Len(a) = 0 THEN TRUE
    ELSE IF a[1] = b[1] THEN str_lt(Tail(a), Tail(b))
    ELSE ord(a[1]) < ord(b[1])

\* ''.join(parts), by halves
RECURSIVE Cat(_)
Cat(parts) ==
    IF Len(parts) = 0 THEN <<>>
    ELSE IF Len(parts) = 1 THEN parts[1]
    ELSE LET m == Len(parts) \div 2
         IN  Cat(SubSeq(parts, 1, m)) \o Cat(SubSeq(parts, m + 1, Len(parts)))

\* sep.join(parts)
RECURSIVE join(_, _)
join(sep, parts) ==
    IF Len(parts) = 0 THEN <<>>
    ELSE IF Len(parts) = 1 THEN parts[1]
    ELSE parts[1] \o sep \o join(sep, Tail(parts))

\* cgi.escape(s): '&', '<' and '>' become entities (quote is not set).
escape_char(c) ==
    IF c = "&" THEN <<"&", "a", "m", "p", ";">>
    ELSE IF c = "<" THEN <<"&", "l", "t", ";">>
    ELSE IF c = ">" THEN <<"&", "g", "t", ";">>
    ELSE <<c>>

cgi_escape(s) == Cat([i \in 1..Len(s) |-> escape_char(s[i])])

\* s.split('\n'): always at least one piece, '' gives [''].
RECURSIVE split(_)
split(s) ==
    IF \A i \in 1..Len(s) : s[i] # NL THEN <<s>>
    ELSE LET i == CHOOSE j \in 1..Len(s) :
                    s[j] = NL /\ \A k \in 1..(j - 1) : s[k] # NL
         IN  <<SubSeq(s, 1, i - 1)>> \o split(SubSeq(s, i + 1, Len(s)))

(***************************************************************************)
(* json.dumps(obj, indent=2, sort_keys=True, separators=(',', ': '))        *)
(*                                                                          *)
(* A JSON value is [t, s, items]: t = "str" with the text s, t = "obj" with *)
(* items the dict's [k, v] pairs in any order, t = "arr" with items the     *)
(* list's elements as [k |-> <<>>, v].                                       *)
(***************************************************************************)
JStr(s) == [t |-> "str", s |-> s, items |-> <<>>]
JObj(items) == [t |-> "obj", s |-> <<>>, items |-> items]
JArr(values) ==
    [t |-> "arr", s |-> <<>>, items |-> [i \in 1..Len(values) |-> [k |-> <<>>, v |-> values[i]]]]
KV(k, v) == [k |-> k, v |-> v]

\* json.encoder.encode_basestring_ascii, on the characters of the model
json_char(c) ==
    IF c = "\"" THEN <<"\\", "\"">>
    ELSE IF c = "\\" THEN <<"\\", "\\">>
    ELSE IF c = NL THEN <<"\\", "n">>
    ELSE <<c>>

encode_basestring(s) == <<"\"">> \o Cat([i \in 1..Len(s) |-> json_char(s[i])]) \o <<"\"">>

\* sorted(dct.items(), key=lambda kv: kv[0])
RECURSIVE sort_items(_)
sort_items(items) ==
    IF Len(items) <= 1 THEN items
    ELSE LET i == CHOOSE j \in 1..Len(items) :
                    \A k \in 1..Len(items) : k = j \/ str_lt(items[j].k, items[k].k)
             rest == [n \in 1..(Len(items) - 1) |-> IF n < i THEN items[n] ELSE items[n + 1]]
         IN  <<items[i]>> \o sort_items(rest)

\* '\n' + ' ' * (indent * level), indent = 2
newline_indent(level) == <<NL>> \o [i \in 1..(2 * level) |-> " "]

RECURSIVE iterencode(_, _)
iterencode(o, level) ==
    IF o.t = "str" THEN encode_basestring(o.s)
    ELSE IF Len(o.items) = 0 THEN (IF o.t = "obj" THEN <<"{", "}">> ELSE <<"[", "]">>)
    ELSE LET items == IF o.t = "obj" THEN sort_items(o.items) ELSE o.items
             item(i) == (IF o.t = "obj"
                         THEN encode_basestring(items[i].k) \o <<":", " ">>
                         ELSE <<>>)
                        \o iterencode(items[i].v, level + 1)
         IN  (IF o.t = "obj" THEN <<"{">> ELSE <<"[">>)
             \o newline_indent(level + 1)
             \o join(<<",">> \o newline_indent(level + 1), [i \in 1..Len(items) |-> item(i)])
             \o newline_indent(level)
             \o (IF o.t = "obj" THEN <<"}">> ELSE <<"]">>)

json_dumps(o) == iterencode(o, 0)

(***************************************************************************)
(* Alerts.  An alert is read only: rule_name, rule_description, created,    *)
(* record, source_service, source_entity, alert_id.  rule_description holds *)
(* what RuleDescriptionParser.present makes of it; created is None.         *)
(***************************************************************************)
NoFields == <<>>

Alerts == <<
    [rule_name |-> <<"r">>, alert_id |-> <<"1">>, source_service |-> <<"s", "3">>, source_entity |-> <<"b">>,
     rule_description |-> [author |-> <<"m", "e">>, description |-> <<"a", "<", "b">>, fields |-> NoFields],
     record |-> JObj(<<>>)],
    [rule_name |-> <<"r", "_", "2">>, alert_id |-> <<"2">>, source_service |-> <<"s", "s", "h">>, source_entity |-> <<>>,
     rule_description |-> [author |-> <<>>, description |-> <<"d">>,
                           fields |-> <<KV(<<"r", "e", "f">>, <<"x">>)>>],
     record |-> JObj(<<KV(<<"a">>, JStr(<<"<">>))>>)],
    [rule_name |-> <<"r">>, alert_id |-> <<"3">>, source_service |-> <<"s", "3">>, source_entity |-> <<"b">>,
     rule_description |-> [author |-> <<"m", "e">>, description |-> <<>>, fields |-> NoFields],
     record |-> JObj(<<KV(<<>>, JArr(<<JStr(<<>>), JStr(<<>>)>>))>>)],
    [rule_name |-> <<"r">>, alert_id |-> <<"4">>, source_service |-> <<"s", "3">>, source_entity |-> <<"b">>,
     rule_description |-> [author |-> <<"m", "e">>, description |-> <<>>, fields |-> NoFields],
     record |-> JObj(<<KV(<<"k">>, JStr(<<"x", "\n", "y">>)), KV(<<"a">>, JObj(<<>>)), KV(<<>>, JArr(<<>>))>>)]
>>

\* RuleDescriptionParser.present(rule_description): {author, description, fields}
present(rule_description) == rule_description

(***************************************************************************)
(* The heap.  An object is a publication dict (its keys, and under them the *)
(* text of 'slack.text', the address of the 'slack.attachments' list and    *)
(* the address of the '_previous_publication' dict) or an attachment list   *)
(* (its items).  Address 0 is no object.  An attachment dict is written     *)
(* only while it is built and belongs to one list; lists hold attachments   *)
(* by value, as JSON objects.                                               *)
(***************************************************************************)
VARIABLES
    alert,          \* the alert being published
    maximum,        \* _SLACK_MAXIMUM_ATTACHMENT_CHARACTER_LENGTH of the AttachFullRecord in use
    heap,           \* the sequence of objects; an address is an index
    publication,    \* the address of the publication the fold has reached
    stages          \* the calls of publish made so far, in order

vars == <<alert, maximum, heap, publication, stages>>

Dict(keys, text, attachments, previous) ==
    [kind |-> "dict", keys |-> keys, text |-> text, attachments |-> attachments,
     previous |-> previous, items |-> <<>>]

List(items) ==
    [kind |-> "list", keys |-> {}, text |-> <<>>, attachments |-> 0, previous |-> 0,
     items |-> items]

new(h, object) == [heap |-> Append(h, object), addr |-> Len(h) + 1]

has_key(h, p, key) == key \in h[p].keys

\* list.insert(0, item) in the place of list.append(item)
list_prepend(h, l, item) == [h EXCEPT ![l].items = <<item>> \o @]

\* list.append(item), in place
list_append(h, l, item) == [h EXCEPT ![l].items = Append(@, item)]

\* The value json.dumps sees at address a.
RECURSIVE to_json(_, _)
to_json(h, a) ==
    LET o == h[a]
    IN  IF o.kind = "list" THEN JArr(o.items)
        ELSE JObj(
            (IF "slack.text" \in o.keys THEN <<KV(<<"s", "l", "a", "c", "k", ".", "t", "e", "x", "t">>, JStr(o.text))>> ELSE <<>>)
            \o (IF "slack.attachments" \in o.keys
                THEN <<KV(<<"s", "l", "a", "c", "k", ".", "a", "t", "t", "a", "c", "h", "m", "e", "n", "t", "s">>, to_json(h, o.attachments))>> ELSE <<>>)
            \o (IF "_previous_publication" \in o.keys
                THEN <<KV(<<"_", "p", "r", "e", "v", "i", "o", "u", "s", "_", "p", "u", "b", "l", "i", "c", "a", "t", "i", "o", "n">>, to_json(h, o.previous))>> ELSE <<>>))

\* The addresses of the objects reachable from address a (0: none).
RECURSIVE reachable(_, _)
reachable(h, a) ==
    IF a = 0 THEN {}
    ELSE {a} \cup reachable(h, h[a].attachments) \cup reachable(h, h[a].previous)

\* copy.copy(publication) in the place of deepcopy: a new dict holding the same
\* list and the same previous publication
shallow_copy(h, a) == new(h, h[a])

\* A copy of the dict and of its list that keeps the previous publication it holds
deepcopy_keep_previous(h, a) ==
    LET o == h[a]
        c1 == IF o.attachments = 0 THEN [heap |-> h, addr |-> 0]
              ELSE new(h, h[o.attachments])
    IN  new(c1.heap, [o EXCEPT !.attachments = c1.addr])

\* copy.deepcopy(publication): a new object for every object reachable
RECURSIVE deepcopy(_, _)
deepcopy(h, a) ==
    IF a = 0 THEN [heap |-> h, addr |-> 0]
    ELSE LET o == h[a]
             c1 == deepcopy(h, o.attachments)
             c2 == deepcopy(c1.heap, o.previous)
         IN  new(c2.heap, [o EXCEPT !.attachments = c1.addr, !.previous = c2.addr])

\* new_publication['slack.attachments'] = new_publication.get('slack.attachments', [])
set_default_attachments(h, p) ==
    IF has_key(h, p, "slack.attachments") THEN h
    ELSE LET l == new(h, List(<<>>))
         IN  [l.heap EXCEPT ![p].keys = @ \cup {"slack.attachments"},
                            ![p].attachments = l.addr]

(***************************************************************************)
(* Attachments are JSON objects; get reads a key of one.                    *)
(***************************************************************************)
get(o, key) == o.items[CHOOSE i \in 1..Len(o.items) : o.items[i].k = key].v

has(o, key) == \E i \in 1..Len(o.items) : o.items[i].k = key

RAUSCH == <<"#", "f", "f", "5", "a", "5", "f">>
BABU == <<"#", "0", "0", "d", "1", "c", "1">>
LIMA == <<"#", "8", "c", "e", "0", "7", "1">>
HACKBERRY == <<"#", "7", "b", "0", "0", "5", "1">>

\* map(lambda(key): {'title': key, 'value': fields[key]}, fields.keys())
rule_fields(fields) ==
    JArr([i \in 1..Len(fields) |->
            JObj(<<KV(<<"t", "i", "t", "l", "e">>, JStr(fields[i].k)), KV(<<"v", "a", "l", "u", "e">>, JStr(fields[i].v))>>)])

(***************************************************************************)
(* Summary                                                                  *)
(***************************************************************************)
_GITHUB_REPO_URL == <<"h", "t", "t", "p", "s", ":", "/", "/", "g", "i", "t", "h", "u", "b", ".", "c", "o", "m", "/", "a", "i", "r", "b", "n", "b", "/", "s", "t", "r", "e", "a", "m", "a", "l", "e", "r", "t">>
_SEARCH_PATH == <<"/", "s", "e", "a", "r", "c", "h">>
_RULES_PATH == <<"/", "r", "u", "l", "e", "s">>

HexDigits == <<"0", "1", "2", "3", "4", "5", "6", "7", "8", "9", "A", "B", "C", "D", "E", "F">>

\* urllib.quote_plus of one character
quote_plus_char(c) ==
    LET n == ord(c)
    IN  IF (48 <= n /\ n <= 57) \/ (65 <= n /\ n <= 90) \/ (97 <= n /\ n <= 122)
           \/ c \in {"_", ".", "-"}
        THEN <<c>>
        ELSE IF c = " " THEN <<"+">>
        ELSE <<"%", HexDigits[(n \div 16) + 1], HexDigits[(n % 16) + 1]>>

\* urllib.urlencode({'q': value})
urlencode_q(value) == <<"q", "=">> \o Cat([i \in 1..Len(value) |-> quote_plus_char(value[i])])

Summary_color == RAUSCH
Summary_author_url(author) == <<>>
Summary_author_icon(author) == <<>>
Summary_title_url(rule_name) ==
    _GITHUB_REPO_URL \o _SEARCH_PATH \o <<"?">>
    \o urlencode_q(rule_name \o <<" ", "p", "a", "t", "h", ":">> \o _RULES_PATH)

Summary_attachment(al) ==
    LET rule_presentation == present(al.rule_description)
        author == rule_presentation.author
    IN  JObj(<<
            KV(<<"f", "a", "l", "l", "b", "a", "c", "k">>, JStr(<<"R", "u", "l", "e", " ", "t", "r", "i", "g", "g", "e", "r", "e", "d", ":", " ">> \o al.rule_name)),
            KV(<<"c", "o", "l", "o", "r">>, JStr(Summary_color)),
            KV(<<"a", "u", "t", "h", "o", "r", "_", "n", "a", "m", "e">>, JStr(author)),
            KV(<<"a", "u", "t", "h", "o", "r", "_", "l", "i", "n", "k">>, JStr(Summary_author_url(author))),
            KV(<<"a", "u", "t", "h", "o", "r", "_", "i", "c", "o", "n">>, JStr(Summary_author_icon(author))),
            KV(<<"t", "i", "t", "l", "e">>, JStr(al.rule_name)),
            KV(<<"t", "i", "t", "l", "e", "_", "l", "i", "n", "k">>, JStr(Summary_title_url(al.rule_name))),
            KV(<<"t", "e", "x", "t">>, JStr(cgi_escape(rule_presentation.description))),
            KV(<<"f", "i", "e", "l", "d", "s">>, rule_fields(rule_presentation.fields)),
            KV(<<"i", "m", "a", "g", "e", "_", "u", "r", "l">>, JStr(<<>>)),
            KV(<<"t", "h", "u", "m", "b", "_", "u", "r", "l">>, JStr(<<>>)),
            KV(<<"f", "o", "o", "t", "e", "r">>, JStr(<<>>)),
            KV(<<"f", "o", "o", "t", "e", "r", "_", "i", "c", "o", "n">>, JStr(<<>>)),
            \* alert.created is None in every alert of the model
            KV(<<"t", "s">>, JStr(<<>>)),
            KV(<<"m", "r", "k", "d", "w", "n", "_", "i", "n">>, JArr(<<>>))
        >>)

\* Summary.publish: a new dict with a new list, holding the dict it was given
Summary_publish(h, al, p) ==
    LET l == new(h, List(<<Summary_attachment(al)>>))
        d == new(l.heap, Dict({"slack.text", "slack.attachments", "_previous_publication"},
                              <<"R", "u", "l", "e", " ", "t", "r", "i", "g", "g", "e", "r", "e", "d">>, l.addr, p))
    IN  [heap |-> d.heap, addr |-> d.addr, made |-> <<>>]

(***************************************************************************)
(* AttachRuleInfo                                                           *)
(***************************************************************************)
AttachRuleInfo_color == LIMA

AttachRuleInfo_attachment(al) ==
    LET rule_presentation == present(al.rule_description)
    IN  JObj(<<KV(<<"c", "o", "l", "o", "r">>, JStr(AttachRuleInfo_color)),
               KV(<<"f", "i", "e", "l", "d", "s">>, rule_fields(rule_presentation.fields))>>)

AttachRuleInfo_publish(h, al, p) ==
    LET c == deepcopy(h, p)
        h1 == set_default_attachments(c.heap, c.addr)
        h2 == list_append(h1, h1[c.addr].attachments, AttachRuleInfo_attachment(al))
    IN  [heap |-> h2, addr |-> c.addr, made |-> <<>>]

(***************************************************************************)
(* AttachPublication                                                        *)
(***************************************************************************)
AttachPublication_color == BABU

\* '```\n{}\n```'.format(document)
code_block(document) == <<BACKTICK, BACKTICK, BACKTICK, "\n">> \o document \o <<"\n", BACKTICK, BACKTICK, BACKTICK>>

AttachPublication_attachment(h, p) ==
    LET publication_block == code_block(json_dumps(to_json(h, h[p].previous)))
    IN  JObj(<<KV(<<"c", "o", "l", "o", "r">>, JStr(AttachPublication_color)),
               KV(<<"t", "i", "t", "l", "e">>, JStr(<<"A", "l", "e", "r", "t", " ", "D", "a", "t", "a", ":">>)),
               KV(<<"t", "e", "x", "t">>, JStr(cgi_escape(publication_block))),
               KV(<<"m", "r", "k", "d", "w", "n", "_", "i", "n">>, JArr(<<JStr(<<"t", "e", "x", "t">>)>>))>>)

\* line 135: the publisher does nothing without both keys
AttachPublication_cannot_run(h, p) ==
    ~has_key(h, p, "_previous_publication") \/ ~has_key(h, p, "slack.attachments")

\* return deepcopy(publication) in the place of return publication
return_publication_copy(h, p) == deepcopy(h, p)

\* line 137: return publication, the object it was given
return_publication(h, p) == [heap |-> h, addr |-> p]

AttachPublication_publish(h, al, p) ==
    IF AttachPublication_cannot_run(h, p)
    THEN LET r == return_publication(h, p)
         IN  [heap |-> r.heap, addr |-> r.addr, made |-> <<>>]
    ELSE LET c == deepcopy(h, p)
             h1 == list_append(c.heap, c.heap[c.addr].attachments,
                               AttachPublication_attachment(h, p))
         IN  [heap |-> h1, addr |-> c.addr, made |-> <<>>]

(***************************************************************************)
(* AttachFullRecord                                                         *)
(***************************************************************************)
_SLACK_MAXIMUM_ATTACHMENT_CHARACTER_LENGTH == 4000
_LENGTH_PADDING == 10

AttachFullRecord_color == HACKBERRY
_source_service_url(source_service) ==
    <<"h", "t", "t", "p", "s", ":", "/", "/", "c", "o", "n", "s", "o", "l", "e", ".", "a", "w", "s", ".", "a", "m", "a", "z", "o", "n", ".", "c", "o", "m", "/">> \o source_service \o <<"/", "h", "o", "m", "e">>
_footer_icon_from_service(source_service) == <<>>

\* lines 186-191: the escaped document and its lines
record_document(al) == cgi_escape(json_dumps(al.record))
record_document_lines(al) == split(record_document(al))

\* The limit without the padding
character_limit_unpadded(max_length) == max_length

\* line 219
character_limit(max_length) == max_length - _LENGTH_PADDING

\* lines 195-201: the else branch builds a string and drops it
make_footer(al, is_last) ==
    IF is_last
    THEN LET footer_url == _source_service_url(al.source_service)
         IN  IF footer_url # <<>>
             THEN <<"v", "i", "a", " ", "<">> \o footer_url \o <<"|">> \o al.source_service \o <<">">>
             ELSE <<>>
    ELSE <<>>

make_attachment(al, document, is_first, is_last) ==
    JObj(<<
        KV(<<"c", "o", "l", "o", "r">>, JStr(AttachFullRecord_color)),
        KV(<<"a", "u", "t", "h", "o", "r">>, JStr(IF is_first THEN al.source_entity ELSE <<>>)),
        KV(<<"t", "i", "t", "l", "e">>, JStr(IF is_first THEN <<"R", "e", "c", "o", "r", "d">> ELSE <<>>)),
        KV(<<"t", "e", "x", "t">>, JStr(code_block(document))),
        KV(<<"f", "i", "e", "l", "d", "s">>, IF is_last
                      THEN JArr(<<JObj(<<KV(<<"t", "i", "t", "l", "e">>, JStr(<<"A", "l", "e", "r", "t", " ", "I", "d">>)),
                                         KV(<<"v", "a", "l", "u", "e">>, JStr(al.alert_id))>>)>>)
                      ELSE JArr(<<>>)),
        KV(<<"f", "o", "o", "t", "e", "r">>, JStr(make_footer(al, is_last))),
        KV(<<"f", "o", "o", "t", "e", "r", "_", "i", "c", "o", "n">>, JStr(_footer_icon_from_service(al.source_service))),
        KV(<<"m", "r", "k", "d", "w", "n", "_", "i", "n">>, JArr(<<JStr(<<"t", "e", "x", "t">>)>>))
    >>)

\* The comparison of line 229 off by one
flush_first_late(next_document, next_item_length, limit) ==
    LET next_length == next_item_length + Len(next_document)
    IN  next_document # <<>> /\ next_length > limit + 1

\* line 229: whether the document in progress is flushed before the next line
flush_first(next_document, next_item_length, limit) ==
    LET next_length == next_item_length + Len(next_document)
    IN  next_document # <<>> /\ next_length > limit

\* The separator only between lines, not before the first
add_line_joined(next_document, line) ==
    IF next_document = <<>> THEN line ELSE next_document \o <<NL>> \o line

\* line 237
add_line(next_document, line) == next_document \o <<NL>> \o line

\* The document that remains is never attached
attach_last_never(next_document, is_first_document, calls) == calls

\* lines 239-243: attach last document, if any remains
attach_last(next_document, is_first_document, calls) ==
    IF next_document # <<>>
    THEN Append(calls, [document |-> next_document,
                        is_first |-> is_first_document,
                        is_last |-> TRUE])
    ELSE calls

\* A flushed document attached as the first whatever is_first_document says
attach_flushed_as_first(next_document, is_first_document, calls) ==
    Append(calls, [document |-> next_document, is_first |-> TRUE, is_last |-> FALSE])

\* lines 230-235: the document in progress is attached, not as the last one
attach_flushed(next_document, is_first_document, calls) ==
    Append(calls, [document |-> next_document,
                   is_first |-> is_first_document,
                   is_last |-> FALSE])

\* lines 220-243.  calls: the calls of make_attachment made so far, each
\* [document, is_first, is_last].
RECURSIVE chunk(_, _, _, _, _)
chunk(lines, next_document, is_first_document, limit, calls) ==
    IF Len(lines) > 0
    THEN LET flush == flush_first(next_document, Len(lines[1]), limit)
         IN  chunk(Tail(lines),
                   add_line(IF flush THEN <<>> ELSE next_document, lines[1]),
                   IF flush THEN FALSE ELSE is_first_document,
                   limit,
                   IF flush
                   THEN attach_flushed(next_document, is_first_document, calls)
                   ELSE calls)
    ELSE attach_last(next_document, is_first_document, calls)

chunks(al, max_length) ==
    chunk(record_document_lines(al), <<>>, TRUE, character_limit(max_length), <<>>)

RECURSIVE append_all(_, _, _)
append_all(h, l, items) ==
    IF Len(items) = 0 THEN h
    ELSE append_all(list_append(h, l, items[1]), l, Tail(items))

AttachFullRecord_publish(h, al, p, max_length) ==
    LET c == deepcopy(h, p)
        h1 == set_default_attachments(c.heap, c.addr)
        made == chunks(al, max_length)
        h2 == append_all(h1, h1[c.addr].attachments,
                         [i \in 1..Len(made) |->
                            make_attachment(al, made[i].document, made[i].is_first,
                                            made[i].is_last)])
    IN  [heap |-> h2, addr |-> c.addr, made |-> made]

(***************************************************************************)
(* The fold: publication_0, then publication_i = publisher_i.publish(alert, *)
(* publication_(i-1)).                                                      *)
(***************************************************************************)
\* The values of _SLACK_MAXIMUM_ATTACHMENT_CHARACTER_LENGTH: the class's, and
\* the overrides of a subclass that leave a character limit of 0 .. MaxBudget.
MaximumLengths ==
    {_SLACK_MAXIMUM_ATTACHMENT_CHARACTER_LENGTH}
    \cup {_LENGTH_PADDING + b : b \in 0..MaxBudget}

\* The publications a caller starts from: {} and, with no attachment list,
\* {'_previous_publication': {}}.
StartHeap == <<Dict({}, <<>>, 0, 0), Dict({"_previous_publication"}, <<>>, 0, 1)>>

Init ==
    /\ \E i \in 1..Len(Alerts) : alert = Alerts[i]
    /\ maximum \in MaximumLengths
    /\ heap = StartHeap
    /\ publication \in {1, 2}
    /\ stages = <<>>

\* One call of publish: r is what it returned.
Stage(name, r) ==
    /\ Len(stages) < MaxStages
    /\ heap' = r.heap
    /\ publication' = r.addr
    /\ stages' = Append(stages, [name |-> name,
                                 input |-> publication,
                                 output |-> r.addr,
                                 before |-> to_json(heap, publication),
                                 made |-> r.made])
    /\ UNCHANGED <<alert, maximum>>

Summary == Stage("Summary", Summary_publish(heap, alert, publication))

AttachRuleInfo == Stage("AttachRuleInfo", AttachRuleInfo_publish(heap, alert, publication))

AttachPublication ==
    Stage("AttachPublication", AttachPublication_publish(heap, alert, publication))

AttachFullRecord ==
    Stage("AttachFullRecord", AttachFullRecord_publish(heap, alert, publication, maximum))

Next == Summary \/ AttachRuleInfo \/ AttachPublication \/ AttachFullRecord

Spec == Init /\ [][Next]_vars

(***************************************************************************)
(* What the properties read of a call of publish.                           *)
(***************************************************************************)
K_attachments == <<"s", "l", "a", "c", "k", ".", "a", "t", "t", "a", "c", "h", "m", "e", "n", "t", "s">>
K_previous == <<"_", "p", "r", "e", "v", "i", "o", "u", "s", "_", "p", "u", "b", "l", "i", "c", "a", "t", "i", "o", "n">>

Calls == 1..Len(stages)
CallsOf(name) == {i \in Calls : stages[i].name = name}

\* The attachment list of a publication value, [] when it has none.
attachments_in(o) ==
    IF has(o, K_attachments)
    THEN LET l == get(o, K_attachments).items IN [j \in 1..Len(l) |-> l[j].v]
    ELSE <<>>

\* The publication call i returned, as it is now.
returned(i) == to_json(heap, stages[i].output)

\* The attachments call i received and returned, and those it appended.
received_attachments(i) == attachments_in(stages[i].before)
returned_attachments(i) == attachments_in(returned(i))
appended(i) ==
    SubSeq(returned_attachments(i), Len(received_attachments(i)) + 1,
           Len(returned_attachments(i)))

is_prefix(a, b) == Len(a) <= Len(b) /\ SubSeq(b, 1, Len(a)) = a

\* The keys of a publication value other than 'slack.attachments', with their values.
other_keys(o) == SelectSeq(o.items, LAMBDA it : it.k # K_attachments)

text_of(attachment) == get(attachment, <<"t", "e", "x", "t">>).s

\* The budget of the chunking loop.
B == character_limit(maximum)

newlines(document) == Cardinality({j \in 1..Len(document) : document[j] = NL})

\* The lines of a chunk body, without the separator put before each.
lines_of(document) == split(Tail(document))

\* The chunk is one line of the document, and that line alone is longer than B.
single_long_line(document) == newlines(document) = 1 /\ Len(document) - 1 > B

\* The fold began with the empty publication.
started_empty == (IF stages = <<>> THEN publication ELSE stages[1].input) = 1

\* Call i is an AttachPublication that found a key missing.
could_not_run(i) ==
    /\ stages[i].name = "AttachPublication"
    /\ ~has(stages[i].before, K_previous) \/ ~has(stages[i].before, K_attachments)

\* An attachment AttachPublication builds.
is_alert_data(attachment) ==
    /\ has(attachment, <<"t", "i", "t", "l", "e">>)
    /\ get(attachment, <<"t", "i", "t", "l", "e">>) = JStr(<<"A", "l", "e", "r", "t", " ", "D", "a", "t", "a", ":">>)
    /\ get(attachment, <<"c", "o", "l", "o", "r">>) = JStr(BABU)

(***************************************************************************)
(* C1                                                                       *)
(***************************************************************************)
\* C1, as stated: every chunk body handed to make_attachment, with the
\* separator newlines counted, has length <= B, unless the chunk is a single
\* line longer than B.
C1_ChunkWithinBudget ==
    \A i \in CallsOf("AttachFullRecord") : \A j \in 1..Len(stages[i].made) :
        LET document == stages[i].made[j].document
        IN  Len(document) <= B \/ single_long_line(document)

\* C1, amended: the separator put before a line is not counted by the test of
\* line 229, so every chunk body has length <= B + 1, unless the chunk is a
\* single line longer than B.
C1_ChunkWithinBudgetPlusOne ==
    \A i \in CallsOf("AttachFullRecord") : \A j \in 1..Len(stages[i].made) :
        LET document == stages[i].made[j].document
        IN  Len(document) <= B + 1 \/ single_long_line(document)

\* A chunk of two lines or more was attached after a flush, of length B + 1.
C1_Witness ==
    \E i \in CallsOf("AttachFullRecord") : \E j \in 2..Len(stages[i].made) :
        LET document == stages[i].made[j].document
        IN  newlines(document) >= 2 /\ Len(document) = B + 1

(***************************************************************************)
(* C2                                                                       *)
(***************************************************************************)
\* C2: for a budget B > 0, the chunk bodies in the order attached, joined,
\* are the escaped document with one newline before it; every body begins with
\* the separator, and the lines of the bodies, in order, are the lines of the
\* document, each once and whole.
C2_ChunksRebuildDocument ==
    \A i \in CallsOf("AttachFullRecord") :
        B > 0 =>
            LET made == stages[i].made
            IN  /\ Cat([j \in 1..Len(made) |-> made[j].document])
                       = <<NL>> \o record_document(alert)
                /\ \A j \in 1..Len(made) : made[j].document[1] = NL
                /\ Cat([j \in 1..Len(made) |-> lines_of(made[j].document)])
                       = record_document_lines(alert)
                /\ join(<<NL>>, Cat([j \in 1..Len(made) |-> lines_of(made[j].document)]))
                       = record_document(alert)

\* The document went into three chunks or more, one of them of several lines.
C2_Witness ==
    \E i \in CallsOf("AttachFullRecord") :
        /\ B > 0
        /\ Len(stages[i].made) >= 3
        /\ \E j \in 1..Len(stages[i].made) : newlines(stages[i].made[j].document) >= 2

(***************************************************************************)
(* C3                                                                       *)
(***************************************************************************)
via_footer(al) ==
    <<"v", "i", "a", " ", "<", "h", "t", "t", "p", "s", ":", "/", "/", "c", "o", "n", "s", "o", "l", "e", ".", "a", "w", "s", ".", "a", "m", "a", "z", "o", "n", ".", "c", "o", "m", "/">> \o al.source_service \o <<"/", "h", "o", "m", "e", "|">>
    \o al.source_service \o <<">">>

alert_id_fields(al) ==
    JArr(<<JObj(<<KV(<<"t", "i", "t", "l", "e">>, JStr(<<"A", "l", "e", "r", "t", " ", "I", "d">>)), KV(<<"v", "a", "l", "u", "e">>, JStr(al.alert_id))>>)>>)

\* C3: of the attachments one call of AttachFullRecord.publish appends, one
\* is built with is_first, the earliest, and it alone has the source entity as
\* author and the title 'Record'; one is built with is_last, the final one,
\* and it alone has the footer and the 'Alert Id' field; the others have empty
\* author, title, footer and fields.
C3_OneFirstOneLast ==
    \A i \in CallsOf("AttachFullRecord") :
        LET made == stages[i].made
            n == Len(made)
            new_ones == appended(i)
        IN  /\ n >= 1 /\ Len(new_ones) = n
            /\ {j \in 1..n : made[j].is_first} = {1}
            /\ {j \in 1..n : made[j].is_last} = {n}
            /\ \A j \in 1..n :
                /\ get(new_ones[j], <<"a", "u", "t", "h", "o", "r">>)
                       = JStr(IF j = 1 THEN alert.source_entity ELSE <<>>)
                /\ get(new_ones[j], <<"t", "i", "t", "l", "e">>) = JStr(IF j = 1 THEN <<"R", "e", "c", "o", "r", "d">> ELSE <<>>)
                /\ get(new_ones[j], <<"f", "o", "o", "t", "e", "r">>)
                       = JStr(IF j = n THEN via_footer(alert) ELSE <<>>)
                /\ get(new_ones[j], <<"f", "i", "e", "l", "d", "s">>)
                       = (IF j = n THEN alert_id_fields(alert) ELSE JArr(<<>>))

\* A call appended a first, a last and at least one between them, after the
\* attachments of an earlier publisher.
C3_Witness ==
    \E i \in CallsOf("AttachFullRecord") :
        Len(appended(i)) >= 3 /\ Len(received_attachments(i)) > 0

(***************************************************************************)
(* C4                                                                       *)
(***************************************************************************)
\* C4, as stated: with the record {} AttachFullRecord.publish appends nothing;
\* the list it returns is the list it received.
C4_EmptyRecordAppendsNothing ==
    \A i \in CallsOf("AttachFullRecord") :
        alert.record = JObj(<<>>) => returned_attachments(i) = received_attachments(i)

\* C4, amended: json.dumps({}) is '{}', one line, and ''.split gives one line
\* too, so the loop always leaves a document: AttachFullRecord.publish appends
\* at least one attachment after those it received, and with the record {}
\* exactly one, first and last, whose text is the code block of '\n{}'.
C4_EmptyRecordAppendsOne ==
    \A i \in CallsOf("AttachFullRecord") :
        /\ is_prefix(received_attachments(i), returned_attachments(i))
        /\ Len(appended(i)) >= 1
        /\ alert.record = JObj(<<>>) =>
            /\ Len(appended(i)) = 1
            /\ text_of(appended(i)[1]) = <<BACKTICK, BACKTICK, BACKTICK, "\n", "\n", "{", "}", "\n", BACKTICK, BACKTICK, BACKTICK>>
            /\ stages[i].made[1].is_first /\ stages[i].made[1].is_last

\* AttachFullRecord.publish ran on the record {}, after another publisher.
C4_Witness ==
    \E i \in CallsOf("AttachFullRecord") :
        alert.record = JObj(<<>>) /\ i > 1 /\ Len(received_attachments(i)) > 0

(***************************************************************************)
(* C5                                                                       *)
(***************************************************************************)
\* C5: AttachPublication.publish, given a publication without
\* '_previous_publication' or without 'slack.attachments', returns the object
\* it was given, with the value it had; and in a fold from the empty
\* publication in which Summary has not run, no attachment of the publication
\* is one AttachPublication builds.
C5_NoOpWithoutPredecessor ==
    /\ \A i \in Calls :
        could_not_run(i) =>
            /\ stages[i].output = stages[i].input
            /\ returned(i) = stages[i].before
            /\ appended(i) = <<>>
    /\ (started_empty /\ CallsOf("Summary") = {}) =>
            LET now == attachments_in(to_json(heap, publication))
            IN  \A j \in 1..Len(now) : ~is_alert_data(now[j])

\* In a fold from the empty publication, AttachPublication.publish found
\* '_previous_publication' missing in a publication with attachments.
C5_Witness ==
    /\ started_empty
    /\ \E i \in Calls :
        could_not_run(i) /\ i > 1 /\ Len(received_attachments(i)) > 0

(***************************************************************************)
(* C6                                                                       *)
(***************************************************************************)
\* C6: the publication passed into a call of publish, with its attachment
\* list and the previous publication nested in it, has after the call, and
\* after every later call, the value it had before it.  (What a call returns
\* is what the next call is passed, so the publications of the earlier stages
\* are among these.)
C6_InputsKeepTheirValue ==
    \A i \in Calls : to_json(heap, stages[i].input) = stages[i].before

\* AttachRuleInfo appended to the copy of a list with attachments, in a
\* publication that holds a previous one, and a later call followed.
C6_Witness ==
    /\ Len(stages) >= 3
    /\ \E i \in CallsOf("AttachRuleInfo") :
        i < Len(stages) /\ Len(received_attachments(i)) > 0
           /\ has(stages[i].before, K_previous)

(***************************************************************************)
(* C7                                                                       *)
(***************************************************************************)
\* The objects call i was given and the objects it returned.
given_objects(i) == reachable(heap, stages[i].input)
returned_objects(i) == reachable(heap, stages[i].output)

\* C7, as stated: what a publisher returns shares no object with what it was
\* given.
C7_ReturnedSharesNothing ==
    \A i \in Calls : given_objects(i) \cap returned_objects(i) = {}

\* C7, amended: AttachRuleInfo, AttachFullRecord and an AttachPublication that
\* has both keys return a deep copy, which shares no object with what they
\* were given.  Summary returns a new dict and a new list, and the dict holds
\* the publication it was given, the object itself, under
\* '_previous_publication'.  AttachPublication without both keys returns the
\* object it was given.
C7_CopiesShareNothing ==
    \A i \in Calls :
        IF stages[i].name = "Summary"
        THEN /\ heap[stages[i].output].previous = stages[i].input
             /\ stages[i].output \notin given_objects(i)
             /\ heap[stages[i].output].attachments \notin given_objects(i)
             /\ returned_objects(i)
                    = {stages[i].output, heap[stages[i].output].attachments}
                      \cup given_objects(i)
        ELSE IF could_not_run(i)
        THEN stages[i].output = stages[i].input
        ELSE given_objects(i) \cap returned_objects(i) = {}

\* Summary held a publication with attachments, and a copying publisher then
\* copied the publication that holds it.
C7_Witness ==
    \E i \in CallsOf("Summary") :
        /\ Len(received_attachments(i)) > 0
        /\ \E j \in Calls :
            j > i /\ ~could_not_run(j) /\ stages[j].name # "Summary"

(***************************************************************************)
(* C8                                                                       *)
(***************************************************************************)
\* C8: in a fold from the empty publication, when AttachPublication.publish
\* appends its attachment, the text is the escaped code block of the dump of
\* the publication as it was before the call just before it.
C8_DumpsStateBeforePrecedingCall ==
    started_empty =>
        \A i \in CallsOf("AttachPublication") :
            (~could_not_run(i) /\ i > 1) =>
                /\ Len(appended(i)) = 1
                /\ text_of(appended(i)[1])
                       = cgi_escape(code_block(json_dumps(stages[i - 1].before)))

(***************************************************************************)
(* C9                                                                       *)
(***************************************************************************)
\* C9, as stated: the attachment list a publisher returns begins with the
\* list it received, and AttachRuleInfo adds one attachment and leaves the
\* other keys as they were.
C9_ReceivedIsPrefix ==
    \A i \in Calls :
        /\ is_prefix(received_attachments(i), returned_attachments(i))
        /\ stages[i].name = "AttachRuleInfo" =>
            /\ Len(appended(i)) = 1
            /\ other_keys(returned(i)) = other_keys(stages[i].before)

\* C9, amended: the list AttachRuleInfo, AttachPublication and
\* AttachFullRecord return begins with the list they received; AttachRuleInfo
\* adds one attachment and leaves the other keys as they were.  Summary
\* returns a list of its one attachment whatever it received, and keeps the
\* publication it received under '_previous_publication'.
C9_ReceivedIsPrefixButSummary ==
    \A i \in Calls :
        IF stages[i].name = "Summary"
        THEN /\ returned_attachments(i) = <<Summary_attachment(alert)>>
             /\ get(returned(i), K_previous) = stages[i].before
        ELSE /\ is_prefix(received_attachments(i), returned_attachments(i))
             /\ stages[i].name = "AttachRuleInfo" =>
                 /\ returned_attachments(i)
                        = Append(received_attachments(i), AttachRuleInfo_attachment(alert))
                 /\ other_keys(returned(i)) = other_keys(stages[i].before)

\* Summary received attachments, and AttachRuleInfo added one to a list with some.
C9_Witness ==
    /\ \E i \in CallsOf("Summary") : Len(received_attachments(i)) > 0
    /\ \E i \in CallsOf("AttachRuleInfo") :
        Len(received_attachments(i)) > 0 /\ has(stages[i].before, K_previous)

(***************************************************************************)
(* C10                                                                      *)
(***************************************************************************)
\* C10: with the limit the maximum length less _LENGTH_PADDING, if no line of
\* the escaped document is longer than the limit, the text of every
\* attachment AttachFullRecord.publish appends, code block included, is no
\* longer than the maximum length.
C10_PaddingSuffices ==
    \A i \in CallsOf("AttachFullRecord") :
        (\A k \in 1..Len(record_document_lines(alert)) :
            Len(record_document_lines(alert)[k]) <= maximum - _LENGTH_PADDING)
        => \A j \in 1..Len(appended(i)) : Len(text_of(appended(i)[j])) <= maximum

\* No line is longer than the limit, the document was flushed, and a text is
\* one short of the maximum length.
C10_Witness ==
    \E i \in CallsOf("AttachFullRecord") :
        /\ \A k \in 1..Len(record_document_lines(alert)) :
            Len(record_document_lines(alert)[k]) <= maximum - _LENGTH_PADDING
        /\ Len(appended(i)) >= 2
        /\ \E j \in 1..Len(appended(i)) : Len(text_of(appended(i)[j])) = maximum - 1

====
